---------------------------- MODULE Spec2Model ----------------------------
(***************************************************************************)
(* skyrimfolder: filesystem entries (File, Directory), the recursive walk, *)
(* get_structure (snapshot) and compare_files (diff against a snapshot).   *)
(*                                                                         *)
(* The filesystem is a map from absolute paths to nodes.  A path is the    *)
(* sequence of its components (pathlib's `parts`).  Entry objects are      *)
(* records built by the constructors of filesystem.py; they hold what the  *)
(* constructor captured.                                                   *)
(***************************************************************************)
EXTENDS Integers, Sequences, FiniteSets, TLC

VARIABLES
    fs,        \* the filesystem: path -> [kind, size]
    nops,      \* number of filesystem changes made so far (bounded)
    platform,  \* "posix" or "nt": decides os.rename onto an existing target
    pickle,    \* the pickle file written by save_to_pickle, or NoFile
    snapAt,    \* history: the filesystem and change count when pickle was written
    out,       \* what the compare_files call that just returned reported
    obj,       \* the entry object under observation (a File or Directory), or NoEntry
    born,      \* history: what was observed of obj when it was constructed
    opres,     \* the entry-method call that just returned (args, error, fs before)
    stack,     \* frames of a Directory construction in progress (step by step)
    listed,    \* paths iterdir() returned during the construction in progress
    gs         \* the get_structure call: idle, running, returned (filelist) or error

vars == <<fs, nops, platform, pickle, snapAt, out, obj, born, opres, stack, listed, gs>>

---------------------------------------------------------------------------
(* Bounds *)

\* deepest entry below the root that the filesystem holds
MaxDepth == 2
\* largest file size, in bytes
MaxSize == 2
\* number of filesystem changes in one behaviour
MaxOps == 3

\* entry names available in every directory
Names == {"a", "b"}

\* the directory handed to get_structure / compare_files
Root == <<"root">>

Sizes == 0..MaxSize

---------------------------------------------------------------------------
(* Paths (pathlib.Path) *)

RECURSIVE RelPaths(_)
RelPaths(d) ==
    IF d = 0 THEN {<<>>}
    ELSE {<<>>} \cup {<<n>> \o r : n \in Names, r \in RelPaths(d - 1)}

AllPaths == {Root \o r : r \in RelPaths(MaxDepth)}

Depth(p) == Len(p) - Len(Root)

\* Path.parent
Parent(p) == SubSeq(p, 1, Len(p) - 1)

\* Path.name
Name(p) == p[Len(p)]

\* parent / name
Join(p, n) == p \o <<n>>

IsPrefix(b, p) == Len(b) <= Len(p) /\ SubSeq(p, 1, Len(b)) = b

\* p is strictly inside b
Under(b, p) == IsPrefix(b, p) /\ p # b

\* Path.relative_to: the part of p after base; ValueError when p is not in base
RelativeTo(p, base) ==
    IF IsPrefix(base, p)
    THEN [err |-> "ok", path |-> SubSeq(p, Len(base) + 1, Len(p))]
    ELSE [err |-> "ValueError", path |-> <<>>]

---------------------------------------------------------------------------
(* The filesystem *)

Absent == [kind |-> "none", size |-> 0]
DirNode == [kind |-> "dir", size |-> 0]
FileNode(n) == [kind |-> "file", size |-> n]

Exists(f, p) == p \in AllPaths /\ f[p].kind # "none"

\* Path.is_file / Path.is_dir: False for a path that does not exist
IsFile(f, p) == p \in AllPaths /\ f[p].kind = "file"
IsDir(f, p) == p \in AllPaths /\ f[p].kind = "dir"

\* the directory that holds the root always exists
ParentIsDir(f, p) == p = Root \/ IsDir(f, Parent(p))

\* the entries that exist strictly below p
Below(f, p) == {q \in AllPaths : Under(p, q) /\ Exists(f, q)}

HasChildren(f, p) == \E n \in Names : Exists(f, Join(p, n))

EmptyRoot == [p \in AllPaths |-> IF p = Root THEN DirNode ELSE Absent]

\* open("w") / open("a") + write: the file at p now has n bytes
WriteFile(f, p, n) == [f EXCEPT ![p] = FileNode(n)]

Mkdir(f, p) == [f EXCEPT ![p] = DirNode]

\* Path.unlink / Path.rmdir on an entry with nothing below it
RemoveOne(f, p) == [f EXCEPT ![p] = Absent]

\* shutil.rmtree: p and everything below it
Rmtree(f, p) == [q \in AllPaths |-> IF IsPrefix(p, q) THEN Absent ELSE f[q]]

\* the subtree at src moved to dst (dst's old subtree is gone)
MoveTree(f, src, dst) ==
    [q \in AllPaths |->
        IF IsPrefix(dst, q)
            THEN LET s == src \o SubSeq(q, Len(dst) + 1, Len(q))
                 IN IF s \in AllPaths THEN f[s] ELSE Absent
        ELSE IF IsPrefix(src, q) THEN Absent
        ELSE f[q]]

\* os.rename(src, dst) as pathlib's Path.rename calls it.  On Windows an
\* existing target is an error; on POSIX a file replaces a file and a
\* directory replaces an empty directory, silently.
OsRename(f, plat, src, dst) ==
    IF ~Exists(f, src) THEN [err |-> "FileNotFoundError", fs |-> f]
    ELSE IF ~Exists(f, dst) THEN [err |-> "ok", fs |-> MoveTree(f, src, dst)]
    ELSE IF plat = "nt" THEN [err |-> "FileExistsError", fs |-> f]
    ELSE IF IsFile(f, src) /\ IsDir(f, dst) THEN [err |-> "IsADirectoryError", fs |-> f]
    ELSE IF IsDir(f, src) /\ IsFile(f, dst) THEN [err |-> "NotADirectoryError", fs |-> f]
    ELSE IF IsDir(f, dst) /\ HasChildren(f, dst) THEN [err |-> "OSError(ENOTEMPTY)", fs |-> f]
    ELSE [err |-> "ok", fs |-> MoveTree(f, src, dst)]

---------------------------------------------------------------------------
(* Entries: File and Directory (filesystem.py) *)

\* the orders in which os.listdir may return the names of a directory
NameOrders ==
    {o \in [1..Cardinality(Names) -> Names] : \A i, j \in DOMAIN o : i # j => o[i] # o[j]}

\* Path.iterdir: the paths of the entries of p, in listing order o
Iterdir(f, p, o) ==
    IF Depth(p) >= MaxDepth THEN <<>>
    ELSE LET present == SelectSeq(o, LAMBDA n : Exists(f, Join(p, n)))
         IN [i \in 1..Len(present) |-> Join(p, present[i])]

\* File._calculate_size: stat().st_size
FileCalculateSize(f, p) == f[p].size

\* File.__init__
NewFile(f, p) ==
    [kind |-> "file", path |-> p, size |-> FileCalculateSize(f, p), children |-> <<>>]

RECURSIVE SumSizes(_)
RECURSIVE SizeOf(_)

\* a faulty SizeOf: a File's size is read from the filesystem at each access
SizeOfLive(e) == IF e.kind = "file" THEN fs[e.path].size ELSE SumSizes(e.children)

\* File.size (the stored _size); Directory.size (the sum over the children)
SizeOf(e) == IF e.kind = "file" THEN e.size ELSE SumSizes(e.children)

RECURSIVE SumSizesShallow(_)
\* a faulty SumSizes: only the File children are counted
SumSizesShallow(cs) ==
    IF cs = <<>> THEN 0
    ELSE (IF Head(cs).kind = "file" THEN Head(cs).size ELSE 0) + SumSizesShallow(Tail(cs))

\* the loop of Directory.size and Directory._calculate_size
SumSizes(cs) == IF cs = <<>> THEN 0 ELSE SizeOf(Head(cs)) + SumSizes(Tail(cs))

\* Directory._calculate_size
DirCalculateSize(children) == SumSizes(children)

RECURSIVE NewDirectory(_, _, _)
RECURSIVE GetChildren(_, _, _)

\* Directory._get_children over the listing ps: a File for a file, a Directory
\* for a directory, nothing for any other path
GetChildren(f, ps, o) ==
    IF ps = <<>> THEN <<>>
    ELSE LET child_path == Head(ps)
             rest == GetChildren(f, Tail(ps), o)
         IN IF IsFile(f, child_path) THEN <<NewFile(f, child_path)>> \o rest
            ELSE IF IsDir(f, child_path) THEN <<NewDirectory(f, child_path, o)>> \o rest
            ELSE rest

\* Directory.__init__: the whole subtree is built by the constructor
NewDirectory(f, p, o) ==
    LET children == GetChildren(f, Iterdir(f, p, o), o)
    IN [kind |-> "dir", path |-> p, size |-> DirCalculateSize(children),
        children |-> children]

\* the children property
Children(e) == e.children

RECURSIVE Walk(_)
RECURSIVE WalkFrom(_)

RECURSIVE WalkFromPostOrder(_)
\* a faulty WalkFrom: a directory is yielded after its subtree
WalkFromPostOrder(cs) ==
    IF cs = <<>> THEN <<>>
    ELSE LET child == Head(cs)
         IN (IF child.kind = "dir" THEN WalkFromPostOrder(Children(child)) ELSE <<>>)
               \o <<child>> \o WalkFromPostOrder(Tail(cs))

\* the loop of Directory.walk over the children cs
WalkFrom(cs) ==
    IF cs = <<>> THEN <<>>
    ELSE LET child == Head(cs)
         IN <<child>> \o (IF child.kind = "dir" THEN Walk(child) ELSE <<>>)
                      \o WalkFrom(Tail(cs))

\* Directory.walk
Walk(e) == WalkFrom(Children(e))

\* File.__eq__ / Directory.__eq__: same class and same path
EntryEq(a, b) ==
    IF a.kind = "file" THEN b.kind = "file" /\ a.path = b.path
    ELSE b.kind = "dir" /\ a.path = b.path

\* File.__hash__ / Directory.__hash__: hash(self._path)
EntryHash(e) == e.path

\* FileSystemEntry.relative_to / Directory.relative_to
EntryRelativeTo(e, other) == RelativeTo(e.path, other.path)

NoEntry == [kind |-> "none"]

\* File.write / write_binary / append: open the path for writing and write,
\* leaving n bytes; open() creates the file when it is absent
FileWrite(f, e, n) ==
    IF IsDir(f, e.path) THEN [err |-> "IsADirectoryError", fs |-> f]
    ELSE IF ~ParentIsDir(f, e.path) THEN [err |-> "FileNotFoundError", fs |-> f]
    ELSE [err |-> "ok", fs |-> WriteFile(f, e.path, n)]

\* File.delete: Path.unlink
FileDelete(f, e) ==
    IF IsFile(f, e.path) THEN [err |-> "ok", fs |-> RemoveOne(f, e.path)]
    ELSE IF IsDir(f, e.path) THEN [err |-> "PermissionError", fs |-> f]
    ELSE [err |-> "FileNotFoundError", fs |-> f]

\* File.rename
FileRename(f, plat, e, new_name) ==
    LET new_path == Join(Parent(e.path), new_name)
        r == OsRename(f, plat, e.path, new_path)
    IN IF r.err = "ok"
       THEN [err |-> "ok", fs |-> r.fs, ret |-> NewFile(r.fs, new_path)]
       ELSE [err |-> r.err, fs |-> f, ret |-> NoEntry]

\* a faulty DirectoryDelete: the force flag is ignored, rmtree always runs
DirectoryDeleteAlwaysForce(f, e, force) ==
    IF IsDir(f, e.path) THEN [err |-> "ok", fs |-> Rmtree(f, e.path)]
    ELSE IF IsFile(f, e.path) THEN [err |-> "NotADirectoryError", fs |-> f]
    ELSE [err |-> "FileNotFoundError", fs |-> f]

\* Directory.delete
DirectoryDelete(f, e, force) ==
    IF force
    THEN \* shutil.rmtree
         IF IsDir(f, e.path) THEN [err |-> "ok", fs |-> Rmtree(f, e.path)]
         ELSE IF IsFile(f, e.path) THEN [err |-> "NotADirectoryError", fs |-> f]
         ELSE [err |-> "FileNotFoundError", fs |-> f]
    ELSE \* Path.rmdir
         IF IsDir(f, e.path) /\ HasChildren(f, e.path)
             THEN [err |-> "OSError(ENOTEMPTY)", fs |-> f]
         ELSE IF IsDir(f, e.path) THEN [err |-> "ok", fs |-> RemoveOne(f, e.path)]
         ELSE IF IsFile(f, e.path) THEN [err |-> "NotADirectoryError", fs |-> f]
         ELSE [err |-> "FileNotFoundError", fs |-> f]

\* Directory.rename
DirectoryRename(f, plat, e, new_name, o) ==
    LET new_path == Join(Parent(e.path), new_name)
        r == OsRename(f, plat, e.path, new_path)
    IN IF r.err = "ok"
       THEN [err |-> "ok", fs |-> r.fs, ret |-> NewDirectory(r.fs, new_path, o)]
       ELSE [err |-> r.err, fs |-> f, ret |-> NoEntry]

---------------------------------------------------------------------------
(* main.py *)

Range(s) == {s[i] : i \in DOMAIN s}

\* a faulty StructureOf: each entry is identified by its path and its size
StructureOfSized(directory) ==
    LET w == Walk(directory)
    IN [i \in 1..Len(w) |->
          EntryRelativeTo(w[i], directory).path \o <<ToString(SizeOf(w[i]))>>]

\* get_structure on an already built Directory: the list of relative paths
\* (everything walk() yields lies inside the directory, so relative_to
\* never raises here)
StructureOf(directory) ==
    LET w == Walk(directory)
    IN [i \in 1..Len(w) |-> EntryRelativeTo(w[i], directory).path]

\* get_structure(path)
GetStructure(f, path, o) == StructureOf(NewDirectory(f, path, o))

NoFile == [exists |-> FALSE, data |-> <<>>]

\* pickle.dump of a list of Path objects: each is stored as its class and parts
PickleDump(entries) ==
    [exists |-> TRUE,
     data |-> [i \in 1..Len(entries) |-> [cls |-> "Path", args |-> entries[i]]]]

\* a faulty PickleLoad: each Path is rebuilt from its last part only
PickleLoadNames(blob) ==
    [i \in 1..Len(blob.data) |-> <<blob.data[i].args[Len(blob.data[i].args)]>>]

\* pickle.load: each Path is rebuilt from its parts
PickleLoad(blob) == [i \in 1..Len(blob.data) |-> blob.data[i].args]

NoOut == [state |-> "none"]

\* a faulty CompareFiles: the two differences are taken the wrong way round
CompareFilesSwapped(f, path, o, blob) ==
    IF ~IsDir(f, path) THEN [state |-> "error", error |-> "FileNotFoundError"]
    ELSE IF ~blob.exists THEN [state |-> "error", error |-> "FileNotFoundError"]
    ELSE LET current_structure == Range(GetStructure(f, path, o))
             correct_structure == Range(PickleLoad(blob))
             extra_files == correct_structure \ current_structure
             missing_files == current_structure \ correct_structure
         IN [state |-> "done",
             extra |-> extra_files,
             missing |-> missing_files,
             verdict |-> IF extra_files = {} /\ missing_files = {}
                         THEN "correct" ELSE "incorrect"]

\* compare_files(path, filename)
CompareFiles(f, path, o, blob) ==
    IF ~IsDir(f, path) THEN [state |-> "error", error |-> "FileNotFoundError"]
    ELSE IF ~blob.exists THEN [state |-> "error", error |-> "FileNotFoundError"]
    ELSE LET current_structure == Range(GetStructure(f, path, o))
             correct_structure == Range(PickleLoad(blob))
             extra_files == current_structure \ correct_structure
             missing_files == correct_structure \ current_structure
         IN [state |-> "done",
             extra |-> extra_files,
             missing |-> missing_files,
             verdict |-> IF extra_files = {} /\ missing_files = {}
                         THEN "correct" ELSE "incorrect"]

---------------------------------------------------------------------------
(* State *)

Platforms == {"posix", "nt"}

NoOp == [op |-> "none"]

Idle == [state |-> "idle"]

Init ==
    /\ fs = EmptyRoot
    /\ nops = 0
    /\ platform \in Platforms
    /\ pickle = NoFile
    /\ snapAt = [nops |-> 0, fs |-> EmptyRoot]
    /\ out = NoOut
    /\ obj = NoEntry
    /\ born = NoEntry
    /\ opres = NoOp
    /\ stack = <<>>
    /\ listed = {}
    /\ gs = Idle

\* a filesystem change made by anyone: the last reported results are history
Change(f) ==
    /\ nops < MaxOps
    /\ fs' = f
    /\ nops' = nops + 1
    /\ out' = NoOut
    /\ opres' = NoOp
    /\ UNCHANGED <<platform, pickle, snapAt, obj, born, stack, listed, gs>>

---------------------------------------------------------------------------
(* Changes made to the tree from outside the program *)

EnvCreateFile ==
    \E p \in AllPaths \ {Root}, n \in Sizes :
        /\ ~Exists(fs, p)
        /\ ParentIsDir(fs, p)
        /\ Change(WriteFile(fs, p, n))

EnvWriteFile ==
    \E p \in AllPaths, n \in Sizes :
        /\ IsFile(fs, p)
        /\ fs[p].size # n
        /\ Change(WriteFile(fs, p, n))

EnvMkdir ==
    \E p \in AllPaths :
        /\ ~Exists(fs, p)
        /\ ParentIsDir(fs, p)
        /\ Change(Mkdir(fs, p))

EnvUnlink ==
    \E p \in AllPaths :
        /\ IsFile(fs, p)
        /\ Change(RemoveOne(fs, p))

EnvRmtree ==
    \E p \in AllPaths \ {Root} :
        /\ IsDir(fs, p)
        /\ Change(Rmtree(fs, p))

---------------------------------------------------------------------------
(* Snapshot and compare (main.py) *)

\* save_to_pickle(get_structure(Root), filename)
SaveSnapshot ==
    \E o \in NameOrders :
        /\ IsDir(fs, Root)
        /\ pickle' = PickleDump(GetStructure(fs, Root, o))
        /\ snapAt' = [nops |-> nops, fs |-> fs]
        /\ out' = NoOut
        /\ opres' = NoOp
        /\ UNCHANGED <<fs, nops, platform, obj, born, stack, listed, gs>>

\* compare_files(Root, filename)
Compare ==
    \E o \in NameOrders :
        /\ out' = CompareFiles(fs, Root, o, pickle)
        /\ opres' = NoOp
        /\ UNCHANGED <<fs, nops, platform, pickle, snapAt, obj, born, stack, listed, gs>>

NextCompare ==
    \/ EnvCreateFile
    \/ EnvWriteFile
    \/ EnvMkdir
    \/ EnvUnlink
    \/ EnvRmtree
    \/ SaveSnapshot
    \/ Compare

SpecCompare == Init /\ [][NextCompare]_vars

---------------------------------------------------------------------------
(* Entry objects and their methods (filesystem.py) *)

RECURSIVE SumFileSizes(_, _)
\* the bytes of the files in the set ps, read off the filesystem itself
SumFileSizes(f, ps) ==
    IF ps = {} THEN 0
    ELSE LET q == CHOOSE x \in ps : TRUE
         IN (IF IsFile(f, q) THEN f[q].size ELSE 0) + SumFileSizes(f, ps \ {q})

\* what a caller reads off an entry: path, children, size, walk()
Observe(e) ==
    [path |-> e.path,
     children |-> Children(e),
     size |-> SizeOf(e),
     walk |-> IF e.kind = "dir" THEN Walk(e) ELSE <<>>]

\* history kept for an object built from filesystem f
Birth(f, e) ==
    [obs |-> Observe(e),
     below |-> Below(f, e.path),
     sizes |-> [q \in {e.path} \cup Below(f, e.path) |-> f[q].size],
     bytes |-> SumFileSizes(f, {e.path} \cup Below(f, e.path))]

\* a constructor call that returns; one that raises leaves no object
Construct(e) ==
    /\ obj = NoEntry
    /\ obj' = e
    /\ born' = Birth(fs, e)
    /\ out' = NoOut
    /\ opres' = NoOp
    /\ UNCHANGED <<fs, nops, platform, pickle, snapAt, stack, listed, gs>>

\* Directory(p)
ConstructDirectory ==
    \E p \in AllPaths, o \in NameOrders :
        /\ IsDir(fs, p)
        /\ Construct(NewDirectory(fs, p, o))

\* File(p)
ConstructFile ==
    \E p \in AllPaths :
        /\ IsFile(fs, p)
        /\ Construct(NewFile(fs, p))

\* a method call on an object: its effect on the filesystem and its result
Call(r, res) ==
    /\ r.fs # fs => nops < MaxOps
    /\ fs' = r.fs
    /\ nops' = IF r.fs # fs THEN nops + 1 ELSE nops
    /\ opres' = res
    /\ out' = NoOut
    /\ UNCHANGED <<platform, pickle, snapAt, obj, born, stack, listed, gs>>

CallFileWrite ==
    \E n \in Sizes :
        /\ obj.kind = "file"
        /\ LET r == FileWrite(fs, obj, n)
           IN Call(r, [op |-> "File.write", path |-> obj.path, err |-> r.err,
                       before |-> fs])

CallFileDelete ==
        /\ obj.kind = "file"
        /\ LET r == FileDelete(fs, obj)
           IN Call(r, [op |-> "File.delete", path |-> obj.path, err |-> r.err,
                       before |-> fs])

\* The entry's own name is not passed as new_name, and a File whose path has
\* since become a directory (or the reverse) is not renamed.
CallFileRename ==
    \E new_name \in Names :
        /\ obj.kind = "file"
        /\ obj.path # Root
        /\ new_name # Name(obj.path)
        /\ ~IsDir(fs, obj.path)
        /\ LET r == FileRename(fs, platform, obj, new_name)
           IN Call(r, [op |-> "rename", path |-> obj.path, err |-> r.err,
                       before |-> fs, new_name |-> new_name, ret |-> r.ret])

CallDirectoryDelete ==
    \E force \in BOOLEAN :
        /\ obj.kind = "dir"
        /\ LET r == DirectoryDelete(fs, obj, force)
           IN Call(r, [op |-> "Directory.delete", path |-> obj.path,
                       err |-> r.err, before |-> fs, force |-> force])

CallDirectoryRename ==
    \E new_name \in Names, o \in NameOrders :
        /\ obj.kind = "dir"
        /\ obj.path # Root
        /\ new_name # Name(obj.path)
        /\ ~IsFile(fs, obj.path)
        /\ LET r == DirectoryRename(fs, platform, obj, new_name, o)
           IN Call(r, [op |-> "rename", path |-> obj.path, err |-> r.err,
                       before |-> fs, new_name |-> new_name, ret |-> r.ret])

Next ==
    \/ EnvCreateFile
    \/ EnvWriteFile
    \/ EnvMkdir
    \/ EnvUnlink
    \/ EnvRmtree
    \/ ConstructDirectory
    \/ ConstructFile
    \/ CallFileWrite
    \/ CallFileDelete
    \/ CallFileRename
    \/ CallDirectoryDelete
    \/ CallDirectoryRename

Spec == Init /\ [][Next]_vars

---------------------------------------------------------------------------
(* get_structure step by step, while entries vanish under it                *)
(*                                                                          *)
(* Directory.__init__ runs _get_children: one listing of the directory,     *)
(* then for each listed path is_file(), File(...), is_dir(),                *)
(* Directory(...), each a separate look at the filesystem.  Between two     *)
(* looks another process may remove entries.                                *)

Top == stack[Len(stack)]

SetTop(fr) == [stack EXCEPT ![Len(stack)] = fr]

Frame(p, listing) ==
    [path |-> p, pending |-> listing, children |-> <<>>, phase |-> "is_file"]

Raise(e) ==
    /\ gs' = [state |-> "error", error |-> e]
    /\ stack' = <<>>
    /\ UNCHANGED listed

ScanFrame == UNCHANGED <<fs, nops, platform, pickle, snapAt, out, obj, born, opres>>

\* get_structure(Root): Directory(Root) lists the root
ScanBegin ==
    /\ gs = Idle
    /\ IF IsDir(fs, Root)
       THEN \E o \in NameOrders :
              LET listing == Iterdir(fs, Root, o)
              IN /\ stack' = <<Frame(Root, listing)>>
                 /\ listed' = Range(listing)
                 /\ gs' = [state |-> "running"]
       ELSE Raise("FileNotFoundError")
    /\ ScanFrame

\* child_path.is_file()
ScanIsFile ==
    /\ gs.state = "running"
    /\ Top.pending # <<>>
    /\ Top.phase = "is_file"
    /\ stack' = SetTop([Top EXCEPT !.phase =
                          IF IsFile(fs, Head(Top.pending)) THEN "File" ELSE "is_dir"])
    /\ UNCHANGED <<listed, gs>>
    /\ ScanFrame

\* children.append(File(child_path)): the constructor stats the path
ScanFile ==
    /\ gs.state = "running"
    /\ Top.pending # <<>>
    /\ Top.phase = "File"
    /\ LET child_path == Head(Top.pending)
       IN IF Exists(fs, child_path)
          THEN /\ stack' = SetTop([Top EXCEPT
                                     !.children = Append(@, NewFile(fs, child_path)),
                                     !.pending = Tail(@),
                                     !.phase = "is_file"])
               /\ UNCHANGED <<listed, gs>>
          ELSE Raise("FileNotFoundError")
    /\ ScanFrame

\* child_path.is_dir(); a path that is neither is passed over
ScanIsDir ==
    /\ gs.state = "running"
    /\ Top.pending # <<>>
    /\ Top.phase = "is_dir"
    /\ stack' = SetTop(IF IsDir(fs, Head(Top.pending))
                       THEN [Top EXCEPT !.phase = "Directory"]
                       ELSE [Top EXCEPT !.pending = Tail(@), !.phase = "is_file"])
    /\ UNCHANGED <<listed, gs>>
    /\ ScanFrame

\* Directory(child_path): the constructor lists the child directory
ScanDirectory ==
    /\ gs.state = "running"
    /\ Top.pending # <<>>
    /\ Top.phase = "Directory"
    /\ LET child_path == Head(Top.pending)
       IN IF IsDir(fs, child_path)
          THEN \E o \in NameOrders :
                 LET listing == Iterdir(fs, child_path, o)
                 IN /\ stack' = Append(stack, Frame(child_path, listing))
                    /\ listed' = listed \cup Range(listing)
                    /\ UNCHANGED gs
          ELSE Raise("FileNotFoundError")
    /\ ScanFrame

\* _get_children returns: the Directory is complete.  A child directory is
\* appended to its parent's children; the root is walked and get_structure
\* returns the relative paths.
ScanReturn ==
    /\ gs.state = "running"
    /\ Top.pending = <<>>
    /\ LET d == [kind |-> "dir", path |-> Top.path,
                 size |-> DirCalculateSize(Top.children), children |-> Top.children]
       IN IF Len(stack) = 1
          THEN /\ gs' = [state |-> "returned", filelist |-> StructureOf(d)]
               /\ stack' = <<>>
          ELSE LET up == stack[Len(stack) - 1]
               IN /\ stack' = Append(SubSeq(stack, 1, Len(stack) - 2),
                                     [up EXCEPT !.children = Append(@, d),
                                                !.pending = Tail(@),
                                                !.phase = "is_file"])
                  /\ UNCHANGED gs
    /\ UNCHANGED listed
    /\ ScanFrame

\* the tree is built before the call; during it, entries are only removed
NextScan ==
    \/ (gs = Idle /\ EnvCreateFile)
    \/ (gs = Idle /\ EnvMkdir)
    \/ EnvUnlink
    \/ EnvRmtree
    \/ ScanBegin
    \/ ScanIsFile
    \/ ScanFile
    \/ ScanIsDir
    \/ ScanDirectory
    \/ ScanReturn

SpecScan == Init /\ [][NextScan]_vars

---------------------------------------------------------------------------
(* Claims about snapshot and compare, checked under SpecCompare *)

\* the relative paths of everything that exists below the root, read off
\* the filesystem itself
PresentRel(f) == {SubSeq(q, Len(Root) + 1, Len(q)) : q \in Below(f, Root)}

Compared == out.state = "done"

\* C1: when the filesystem has not changed since the snapshot was saved,
\* compare_files finds no extra and no missing path and reports "correct".
C1_RoundTrip ==
    (Compared /\ pickle.exists /\ snapAt.nops = nops) =>
        /\ out.extra = {}
        /\ out.missing = {}
        /\ out.verdict = "correct"

\* C1 witness: a compare of an unchanged tree that holds a nested entry
C1_Witness ==
    /\ Compared
    /\ pickle.exists
    /\ snapAt.nops = nops
    /\ \E q \in Below(fs, Root) : Depth(q) = 2
    /\ out.verdict = "correct"

\* C2: after any changes since the snapshot, extra is exactly the paths
\* present now and absent at snapshot time, and missing is exactly the
\* paths present at snapshot time and absent now.
C2_ExtraMissing ==
    Compared =>
        /\ out.extra = PresentRel(fs) \ PresentRel(snapAt.fs)
        /\ out.missing = PresentRel(snapAt.fs) \ PresentRel(fs)

\* C2 witness: one entry was removed and another added since the snapshot
C2_Witness ==
    /\ Compared
    /\ out.extra # {}
    /\ out.missing # {}
    /\ out.extra = PresentRel(fs) \ PresentRel(snapAt.fs)
    /\ out.verdict = "incorrect"

\* C9: when the set of relative paths below the root is the same as at
\* snapshot time, whatever happened to sizes and contents, compare_files
\* finds nothing extra or missing and reports "correct".
C9_PathOnly ==
    (Compared /\ pickle.exists /\ PresentRel(fs) = PresentRel(snapAt.fs)) =>
        /\ out.extra = {}
        /\ out.missing = {}
        /\ out.verdict = "correct"

\* C9 witness: a file was rewritten to another size since the snapshot
C9_Witness ==
    /\ Compared
    /\ pickle.exists
    /\ PresentRel(fs) = PresentRel(snapAt.fs)
    /\ \E q \in AllPaths :
          IsFile(fs, q) /\ IsFile(snapAt.fs, q) /\ fs[q].size # snapAt.fs[q].size
    /\ out.verdict = "correct"

---------------------------------------------------------------------------
(* Claims about entry objects, checked under Spec *)

RECURSIVE TreeNodes(_)
\* every entry of the captured tree below e, by structural recursion
TreeNodes(e) ==
    UNION {{e.children[i]} \cup TreeNodes(e.children[i]) : i \in DOMAIN e.children}

Captured == IF obj = NoEntry THEN {} ELSE {obj} \cup TreeNodes(obj)

CapturedDirs == {d \in Captured : d.kind = "dir"}

\* w lists every entry below d once, each directory immediately followed by
\* exactly its own descendants
PreOrder(d, w) ==
    /\ Range(w) = TreeNodes(d)
    /\ Len(w) = Cardinality(TreeNodes(d))
    /\ \A j, k \in DOMAIN w :
          (w[k] \in TreeNodes(w[j])) <=>
              (j < k /\ k <= j + Cardinality(TreeNodes(w[j])))
    /\ \A j \in DOMAIN w : Under(d.path, w[j].path)

\* C3: walk() on any captured directory yields every descendant (not the
\* directory itself) exactly once, in depth-first pre-order; the captured
\* tree holds every entry that was below the directory when it was built.
C3_WalkPreOrder ==
    /\ \A d \in CapturedDirs : PreOrder(d, Walk(d))
    /\ (obj # NoEntry /\ obj.kind = "dir") =>
          {x.path : x \in Range(Walk(obj))} = born.below

\* C3 witness: a walk in which a file follows a directory that holds a file
C3_Witness ==
    /\ obj # NoEntry
    /\ obj.kind = "dir"
    /\ LET w == Walk(obj)
       IN /\ Len(w) = 3
          /\ w[1].kind = "dir"
          /\ w[2].path = Join(w[1].path, Name(w[2].path))
          /\ w[3].kind = "file"
          /\ Parent(w[3].path) = obj.path

RECURSIVE SeqSum(_)
SeqSum(ns) == IF ns = <<>> THEN 0 ELSE ns[1] + SeqSum(Tail(ns))

RECURSIVE SetSizeSum(_)
\* the stored sizes of the File entries in the set es
SetSizeSum(es) ==
    IF es = {} THEN 0
    ELSE LET x == CHOOSE y \in es : TRUE
         IN (IF x.kind = "file" THEN x.size ELSE 0) + SetSizeSum(es \ {x})

\* C4: a Directory's size is the sum of its immediate children's sizes, which
\* is the byte count of the files of its subtree; an empty directory has
\* size 0; a File's size is its byte length when it was constructed.
C4_DirectorySize ==
    /\ \A d \in CapturedDirs :
          /\ SizeOf(d) = SeqSum([i \in DOMAIN d.children |-> SizeOf(d.children[i])])
          /\ SizeOf(d) = SetSizeSum(TreeNodes(d))
          /\ d.children = <<>> => SizeOf(d) = 0
    /\ \A e \in Captured : e.kind = "file" => SizeOf(e) = born.sizes[e.path]
    /\ obj # NoEntry => SizeOf(obj) = born.bytes

\* C4 witness: a directory whose size adds a file to a subdirectory's file
C4_Witness ==
    /\ obj # NoEntry
    /\ obj.kind = "dir"
    /\ \E c, d \in Range(obj.children) :
          /\ c.kind = "file" /\ c.size > 0
          /\ d.kind = "dir" /\ SizeOf(d) > 0
          /\ SizeOf(obj) = c.size + SizeOf(d)

\* an entry constructed now for path p, as _get_children constructs it
EntriesAt(f, p) ==
    IF IsFile(f, p) THEN {NewFile(f, p)}
    ELSE IF IsDir(f, p) THEN {NewDirectory(f, p, o) : o \in NameOrders}
    ELSE {}

\* C5: two entries, whenever constructed and whatever the path held then,
\* are equal exactly when their paths are equal, and equal entries hash alike.
C5_EqualIffSamePath ==
    obj # NoEntry =>
        \A p \in AllPaths : \A e \in EntriesAt(fs, p) :
            /\ EntryEq(obj, e) <=> (obj.path = e.path)
            /\ EntryEq(e, obj) <=> (obj.path = e.path)
            /\ EntryEq(obj, e) => EntryHash(obj) = EntryHash(e)

Renamed == opres.op = "rename"

RenameTarget == Join(Parent(opres.path), opres.new_name)

\* C7: rename(new_name) fails and changes nothing when parent/new_name
\* exists; otherwise it moves the object there and returns an entry for it.
C7_RenameConflict ==
    Renamed =>
        /\ Exists(opres.before, RenameTarget) =>
              /\ opres.err # "ok"
              /\ fs = opres.before
        /\ (~Exists(opres.before, RenameTarget) /\ Exists(opres.before, opres.path)) =>
              /\ opres.err = "ok"
              /\ opres.ret.path = RenameTarget
              /\ Exists(fs, RenameTarget)
              /\ ~Exists(fs, opres.path)

\* C8: what is read off an entry (path, children, size, walk()) is what was
\* read off it when it was constructed, whatever happened to the filesystem.
C8_EntryImmutable ==
    obj # NoEntry => Observe(obj) = born.obs

\* C8 witness: a directory captured with content has deleted itself
C8_Witness ==
    /\ obj # NoEntry
    /\ obj.kind = "dir"
    /\ born.below # {}
    /\ opres.op = "Directory.delete"
    /\ opres.err = "ok"
    /\ ~Exists(fs, obj.path)
    /\ Len(Walk(obj)) = Cardinality(born.below)

Deleted == opres.op = "Directory.delete"

\* C10: delete(force=False) fails and removes nothing when the directory
\* has children and removes the directory only when it has none;
\* delete(force=True) removes the directory and its whole subtree.
C10_DirectoryDelete ==
    Deleted =>
        LET b == opres.before
            p == opres.path
        IN /\ (~opres.force /\ IsDir(b, p) /\ HasChildren(b, p)) =>
                 /\ opres.err = "OSError(ENOTEMPTY)"
                 /\ fs = b
           /\ (~opres.force /\ IsDir(b, p) /\ ~HasChildren(b, p)) =>
                 /\ opres.err = "ok"
                 /\ fs = [b EXCEPT ![p] = Absent]
           /\ (~opres.force /\ fs # b) => ~HasChildren(b, p)
           /\ (opres.force /\ IsDir(b, p)) =>
                 /\ opres.err = "ok"
                 /\ \A q \in AllPaths :
                       IF IsPrefix(p, q) THEN ~Exists(fs, q) ELSE fs[q] = b[q]

\* C10 witness: an unforced delete of a directory that has children
C10_Witness ==
    /\ Deleted
    /\ ~opres.force
    /\ IsDir(opres.before, opres.path)
    /\ HasChildren(opres.before, opres.path)
    /\ opres.err = "OSError(ENOTEMPTY)"

---------------------------------------------------------------------------
(* Claim about a snapshot taken while entries vanish, checked under SpecScan *)

\* C6: get_structure never returns a truncated snapshot: when it returns,
\* the result holds the relative path of every entry that any scanned
\* directory listed (an entry that vanished before it was used makes the
\* call fail instead).
C6_NeverTruncated ==
    gs.state = "returned" =>
        \A q \in listed : RelativeTo(q, Root).path \in Range(gs.filelist)

====
